---- MODULE Spec2Model ----
(***************************************************************************)
(* A model of the A2A protocol client of src/src/a2a-client.ts: the        *)
(* A2AClient session (currentContextId, requestId), its operations send,   *)
(* handleStreaming, stream, continue and newConversation, the HTTP         *)
(* exchange each of them performs, and the two commands of main that       *)
(* drive an instance by themselves, chatCommand and testCommand.           *)
(*                                                                         *)
(* An HTTP response body is a string of bytes.  JSON documents are written *)
(* in a compact stand-in syntax that keeps what the client reads of them:  *)
(*                                                                         *)
(*     json    ::= "{" [result] [error] [amount] "}"                       *)
(*     result  ::= "R" ctx status message*      the Task of `result`       *)
(*     message ::= role text                    role: "u" user, "g" agent  *)
(*     error   ::= "E" text                     error.message              *)
(*     amount  ::= "P" text                     a payment challenge member *)
(*                                                                         *)
(* ctx is one digit (the contextId), status one of "w" (working) and "c"   *)
(* (completed), text a string over x, y, z.  As with JSON, no proper       *)
(* prefix of a document is a document.  The character z is not ASCII: on   *)
(* the wire it is the two bytes "^~".  The text of the user's message      *)
(* takes no part in what the client does and is left out of the requests.  *)
(***************************************************************************)
EXTENDS Integers, Sequences, FiniteSets, TLC

\* JavaScript's undefined (an absent member, an unset field).
Undefined == "undefined"

\* JavaScript truthiness of a string-or-undefined value: a2a-client.ts tests
\* context ids with ||, && and !, all of which take "" for absent.
Truthy(v) == v # Undefined /\ v # ""

Digits == <<"1", "2", "3", "4", "5", "6", "7", "8", "9">>

TextChars == {"x", "y", "z"}

StatusOf(c) == IF c = "c" THEN "completed" ELSE IF c = "w" THEN "working" ELSE Undefined

RoleOf(c) == IF c = "g" THEN "agent" ELSE IF c = "u" THEN "user" ELSE Undefined

\* A Task (interface Task); each message keeps its role and the text of its
\* first part.  NoTask is the value of an absent `result` (and of null).
NoTask == [contextId |-> Undefined, status |-> Undefined, messages |-> <<>>]

\* The i-th character of s ("" outside s).
CharAt(s, i) == IF i >= 1 /\ i <= Len(s) THEN SubSeq(s, i, i) ELSE ""

\* The first position from i on that holds no text character.
TextEnd(s, i) ==
  CHOOSE j \in i..(Len(s) + 1) :
    /\ \A m \in i..(j - 1) : CharAt(s, m) \in TextChars
    /\ CharAt(s, j) \notin TextChars

ConsMessage(m, rest) == [messages |-> <<m>> \o rest.messages, next |-> rest.next]

\* The messages written from position i on, and the position after them.
RECURSIVE ParseMessages(_, _)
MessageAt(s, i, e) ==
  ConsMessage([role |-> RoleOf(CharAt(s, i)), text |-> SubSeq(s, i + 1, e - 1)],
              ParseMessages(s, e))

ParseMessages(s, i) ==
  IF RoleOf(CharAt(s, i)) = Undefined
  THEN [messages |-> <<>>, next |-> i]
  ELSE MessageAt(s, i, TextEnd(s, i + 1))

NoValue == [result |-> NoTask, error |-> Undefined, amount |-> Undefined]

\* A SyntaxError of JSON.parse.
BadJson == [ok |-> FALSE, value |-> NoValue]

\* The end of the member tagged `tag` that starts at p (p when none does).
MemberEnd(s, p, tag) == IF CharAt(s, p) = tag THEN TextEnd(s, p + 1) ELSE p

\* The object whose result member ends before p, its error member before q
\* and its amount member before r, where the closing brace must be.
JsonObject(s, result, p, q, r) ==
  IF r # Len(s) \/ CharAt(s, r) # "}" THEN BadJson
  ELSE [ok |-> TRUE,
        value |-> [result |-> result,
                   error |-> IF q > p THEN SubSeq(s, p + 1, q - 1) ELSE Undefined,
                   amount |-> IF r > q THEN SubSeq(s, q + 1, r - 1) ELSE Undefined]]

JsonAmount(s, result, p, q) == JsonObject(s, result, p, q, MemberEnd(s, q, "P"))

JsonError(s, result, p) == JsonAmount(s, result, p, MemberEnd(s, p, "E"))

JsonResult(s, msgs) ==
  IF /\ \E d \in 1..Len(Digits) : Digits[d] = CharAt(s, 3)
     /\ StatusOf(CharAt(s, 4)) # Undefined
  THEN JsonError(s, [contextId |-> CharAt(s, 3), status |-> StatusOf(CharAt(s, 4)),
                     messages |-> msgs.messages], msgs.next)
  ELSE BadJson

\* JSON.parse / response.json(): ok is FALSE for a SyntaxError, and otherwise
\* value is the parsed object, an absent member being Undefined (NoTask).
JsonParse(s) ==
  IF CharAt(s, 1) # "{" THEN BadJson
  ELSE IF CharAt(s, 2) = "R" THEN JsonResult(s, ParseMessages(s, 5))
  ELSE JsonError(s, NoTask, 2)

\* messages.find(m => m.role === 'agent'): the index of the first agent
\* message, 0 when there is none.
FirstOf(idx) == IF idx = {} THEN 0 ELSE CHOOSE i \in idx : \A j \in idx : i <= j

FindAgent(task) ==
  FirstOf({i \in 1..Len(task.messages) : task.messages[i].role = "agent"})

\* What the byte at position i of `bytes` adds to the decoded text: "^~"
\* decodes to z, so a "~" after a "^" adds nothing more; a "^" that is the last
\* byte is held back; a "^" before another byte and a "~" after none are no
\* valid sequence and decode to "?" (U+FFFD); every other byte is itself.
DecodeAt(bytes, i) ==
  IF CharAt(bytes, i) = "^"
  THEN IF i = Len(bytes) THEN "" ELSE IF CharAt(bytes, i + 1) = "~" THEN "z" ELSE "?"
  ELSE IF CharAt(bytes, i) = "~"
       THEN IF CharAt(bytes, i - 1) = "^" THEN "" ELSE "?"
       ELSE CharAt(bytes, i)

\* The text of the bytes at positions lo..hi.
RECURSIVE DecodeRange(_, _, _)
DecodeRange(bytes, lo, hi) ==
  IF lo > hi THEN ""
  ELSE IF lo = hi THEN DecodeAt(bytes, lo)
  ELSE DecodeRange(bytes, lo, (lo + hi) \div 2)
         \o DecodeRange(bytes, (lo + hi) \div 2 + 1, hi)

\* The decoder's output for `bytes`: the text, and the byte it holds back.
DecodeBytes(bytes) ==
  [text |-> DecodeRange(bytes, 1, Len(bytes)),
   pending |-> IF CharAt(bytes, Len(bytes)) = "^" THEN "^" ELSE ""]

\* decoder.decode(value, { stream: true }), pending being the byte the decoder
\* held back of the chunks before.
Decode(pending, chunk) == DecodeBytes(pending \o chunk)

\* The position of the k-th newline of s, nl being the positions of them all
\* (0 before the first, Len(s) + 1 after the last).
NewlineAt(s, nl, k) ==
  IF k = 0 THEN 0
  ELSE IF k > Cardinality(nl) THEN Len(s) + 1
  ELSE CHOOSE i \in nl : Cardinality({j \in nl : j < i}) = k - 1

SplitAt(s, nl) ==
  [k \in 1..(Cardinality(nl) + 1) |->
     SubSeq(s, NewlineAt(s, nl, k - 1) + 1, NewlineAt(s, nl, k) - 1)]

\* buffer.split('\n'): the pieces between the newlines, in order; always at
\* least one piece, the last being what follows the last newline.
Split(s) == SplitAt(s, {i \in 1..Len(s) : CharAt(s, i) = "\n"})

\* line.startsWith('data: ')
IsDataLine(line) == Len(line) >= 6 /\ SubSeq(line, 1, 6) = "data: "

\* line.slice(6)
DataOf(line) == SubSeq(line, 7, Len(line))

Front(seq) == SubSeq(seq, 1, Len(seq) - 1)

(***************************************************************************)
(* The state.  Clients are A2AClient instances; a slot holds one call of   *)
(* send, continue or stream from its start to its return or throw.         *)
(***************************************************************************)
Clients == {"A", "B"}

Slots == {"s1", "s2"}

VARIABLES
  currentContextId,  \* A2AClient.currentContextId, per instance
  requestId,         \* A2AClient.requestId, per instance
  call,              \* the calls in progress, per slot
  sent,              \* per instance, the ids of the requests POSTed to /a2a
  last,              \* per instance, the operation that finished last
  prev,              \* per instance, what the operation before it was and gave
  observed,          \* per instance, the context ids it has met so far
  known,             \* the context ids the server has met or handed out
  succeeded,         \* per instance, whether an exchange of it has succeeded yet
  driver             \* the command of main that drives instance A, if one does

vars ==
  <<currentContextId, requestId, call, sent, last, prev, observed, known, succeeded,
    driver>>

NoRequest == [id |-> 0, contextId |-> Undefined, streaming |-> FALSE]

NoOutcome == [kind |-> "none", task |-> NoTask, info |-> NoValue, message |-> ""]

\* A slot with no call in it; also the shape of every call record.
IdleCall ==
  [op |-> "idle", pc |-> "idle", client |-> "A", opt |-> Undefined, streaming |-> FALSE,
   ctxBefore |-> Undefined, reqIdBefore |-> 0, sentBefore |-> 0, seenBefore |-> {},
   overlapped |-> FALSE,
   request |-> NoRequest,
   status |-> 0, body |-> "", hasBody |-> FALSE, faithful |-> FALSE,
   pos |-> 0, pending |-> "", buffer |-> "", lines |-> <<>>,
   lastTask |-> NoTask, lastText |-> "", yielded |-> <<>>, decoded |-> <<>>,
   outcome |-> NoOutcome]

\* What prev keeps of an operation: which it was, how it ended, its Task.
Summary(event) ==
  [op |-> event.op, kind |-> event.outcome.kind, task |-> event.outcome.task]

\* The instance is used as a library: main runs no command on it.
NoDriver ==
  [kind |-> "none", pc |-> "off", streaming |-> FALSE, text |-> "", tick |-> 0,
   shown |-> "", index |-> 0, ran |-> <<>>, passed |-> 0, failed |-> {},
   kept |-> Undefined,
   exited |-> FALSE, code |-> 0]

Init ==
  /\ currentContextId = [c \in Clients |-> Undefined]
  /\ requestId = [c \in Clients |-> 0]
  /\ call = [k \in Slots |-> IdleCall]
  /\ sent = [c \in Clients |-> <<>>]
  /\ last = [c \in Clients |-> IdleCall]
  /\ prev = [c \in Clients |-> Summary(IdleCall)]
  /\ observed = [c \in Clients |-> {}]
  /\ known = {}
  /\ succeeded = [c \in Clients |-> FALSE]
  /\ driver = NoDriver

\* The exchange returned a Task, or was a stream() iterated to its end that
\* decoded one.
Successful(event) ==
  \/ event.outcome.kind = "task"
  \/ event.op = "stream" /\ event.outcome.kind = "done" /\ event.decoded # <<>>

\* A plausible slip of the class: the context id is kept in one place for all
\* instances (a static or module-level field).
RecordShared(c, event, ctx) ==
  /\ currentContextId' = [d \in Clients |-> ctx]
  /\ prev' = [prev EXCEPT ![c] = Summary(last[c])]
  /\ last' = [last EXCEPT ![c] = event]
  /\ succeeded' = [succeeded EXCEPT ![c] = @ \/ Successful(event)]

\* An operation of instance c ends, its context id becoming ctx: `event` is
\* what it was and did.
Record(c, event, ctx) ==
  /\ currentContextId' = [currentContextId EXCEPT ![c] = ctx]
  /\ prev' = [prev EXCEPT ![c] = Summary(last[c])]
  /\ last' = [last EXCEPT ![c] = event]
  /\ succeeded' = [succeeded EXCEPT ![c] = @ \/ Successful(event)]

\* The call of slot k ends (returns or throws) with `outcome`.
Finish(k, outcome, ctx) ==
  /\ call' = [call EXCEPT ![k] = IdleCall]
  /\ Record(call[k].client, [call[k] EXCEPT !.pc = "finished", !.outcome = outcome], ctx)

Throw(kind, info, message) ==
  [kind |-> kind, task |-> NoTask, info |-> info, message |-> message]

Return(task) == [kind |-> "task", task |-> task, info |-> NoValue, message |-> ""]

(***************************************************************************)
(* Line decoding, shared by handleStreaming and stream.                    *)
(***************************************************************************)
\* if (parsed.result): the Task of a parsed frame, NoTask when it has none.
ResultOf(parsed) ==
  IF parsed.ok /\ parsed.value.result # NoTask THEN parsed.value.result ELSE NoTask

\* One line of the `for (const line of lines)` loops: the Task it decodes to,
\* NoTask when it is no data line, is [DONE], does not parse (the catch), or
\* parses to an object with no result.
TaskOfLine(line) ==
  IF ~IsDataLine(line) THEN NoTask
  ELSE IF DataOf(line) = "[DONE]" THEN NoTask
  ELSE ResultOf(JsonParse(DataOf(line)))

\* A plausible slip of handleStreaming: the new frame is merged into the Task
\* held so far, whose context id is kept.
MergeTask(old, new) ==
  IF old = NoTask THEN new ELSE [new EXCEPT !.contextId = old.contextId]

\* handleStreaming: lastTask = parsed.result
Supersede(old, new) == new

HandleLine(lastTask, t) == IF t = NoTask THEN lastTask ELSE Supersede(lastTask, t)

\* A plausible slip of handleStreaming: the try is around the loop, not around
\* the line, so a line that does not parse ends the loop over the chunk.
RECURSIVE HandleLinesAbort(_, _)
HandleLinesAbort(lines, lastTask) ==
  IF lines = <<>> THEN lastTask
  ELSE IF /\ IsDataLine(Head(lines)) /\ DataOf(Head(lines)) # "[DONE]"
          /\ ~JsonParse(DataOf(Head(lines))).ok
       THEN lastTask
       ELSE HandleLinesAbort(Tail(lines), HandleLine(lastTask, TaskOfLine(Head(lines))))

\* handleStreaming's loop over the lines of one chunk: lastTask after it.
RECURSIVE HandleLines(_, _)
HandleLines(lines, lastTask) ==
  IF lines = <<>> THEN lastTask
  ELSE HandleLines(Tail(lines), HandleLine(lastTask, TaskOfLine(Head(lines))))

Decoded(t) == IF t = NoTask THEN <<>> ELSE <<t>>

\* The context id stored after decoding the Tasks, from `stored` on.
ContextOf(tasks, stored) ==
  IF tasks = <<>> THEN stored ELSE tasks[Len(tasks)].contextId

\* The Tasks the lines decode to, in order.
RECURSIVE TasksOfLines(_)
TasksOfLines(lines) ==
  IF lines = <<>> THEN <<>>
  ELSE Decoded(TaskOfLine(Head(lines))) \o TasksOfLines(Tail(lines))

\* agentMsg and agentMsg.parts[0].text, a being FindAgent of the Task.
AgentAt(t, a) == [found |-> a > 0, text |-> IF a > 0 THEN t.messages[a].text ELSE ""]

AgentOf(t) == AgentAt(t, FindAgent(t))

\* A plausible slip of stream: every frame's text is yielded whole.
IncrementWhole(lastText, newText) == newText

\* stream: newText.slice(lastText.length)
Increment(lastText, newText) == SubSeq(newText, Len(lastText) + 1, Len(newText))

\* stream's loop over the lines of one chunk, run from `lines` to its next
\* yield or to its end: the lines left, the context id stored and lastText by
\* then, the increment yielded (yields FALSE at the loop's end) and the Tasks
\* decoded on the way.  lastText is assigned when the generator resumes; it is
\* local to the generator and read only after that, so it is set here at once.
RECURSIVE StreamLines(_, _, _, _)
StreamTask(lines, lastText, decoded, ctx, agent) ==
  IF agent.found /\ Len(agent.text) > Len(lastText)
  THEN [rest |-> Tail(lines), ctx |-> ctx, lastText |-> agent.text, yields |-> TRUE,
        yield |-> Increment(lastText, agent.text), decoded |-> decoded]
  ELSE StreamLines(Tail(lines), ctx, lastText, decoded)

StreamLine(lines, ctx, lastText, decoded, t) ==
  IF t = NoTask THEN StreamLines(Tail(lines), ctx, lastText, decoded)
  ELSE StreamTask(lines, lastText, Append(decoded, t), t.contextId, AgentOf(t))

StreamLines(lines, ctx, lastText, decoded) ==
  IF lines = <<>>
  THEN [rest |-> <<>>, ctx |-> ctx, lastText |-> lastText, yields |-> FALSE,
        yield |-> "", decoded |-> decoded]
  ELSE StreamLine(lines, ctx, lastText, decoded, TaskOfLine(Head(lines)))

\* A plausible slip of the read loops: the unfinished last piece is dropped
\* instead of being held back for the next chunk.
DropRest(pieces) == ""

\* buffer = lines.pop() || ''
HoldBack(pieces) == pieces[Len(pieces)]

(***************************************************************************)
(* The server, as far as the claims speak of it (spec.md, sections 6, 8).  *)
(***************************************************************************)
\* The Tasks a response body carries: the result of a unary body, the Tasks
\* of the data lines of a stream.
TasksOfBody(body, streaming) ==
  IF streaming THEN TasksOfLines(Split(Decode("", body).text))
  ELSE Decoded(ResultOf(JsonParse(body)))

CtxOfTasks(tasks) == {tasks[i].contextId : i \in 1..Len(tasks)}

\* The server answers within the context id it was given, and hands out one
\* it never met before when it was given none: ids are the context ids of
\* the Tasks of its response, met the ones it knew by then.
FaithfulIds(request, ids, met) ==
  /\ Cardinality(ids) <= 1
  /\ \A id \in ids :
       IF request.contextId # Undefined THEN id = request.contextId ELSE id \notin met

(***************************************************************************)
(* The operations of A2AClient.                                            *)
(***************************************************************************)
\* The requests one instance may issue in a run.
MaxRequests == 2

\* A call of instance c starting now: what the instance was before it.
Started(c, op, opt, streaming) ==
  [IdleCall EXCEPT !.op = op, !.client = c, !.opt = opt, !.streaming = streaming,
                   !.ctxBefore = currentContextId[c], !.reqIdBefore = requestId[c],
                   !.sentBefore = Len(sent[c]), !.seenBefore = observed[c]]

\* A plausible slip of send: the stored context id wins over the option.
StoredFirst(opt, stored) == IF Truthy(stored) THEN stored ELSE opt

\* send: options?.contextId || this.currentContextId
EffectiveContextId(opt, stored) == IF Truthy(opt) THEN opt ELSE stored

\* A plausible slip of send: the context id is left out of the configuration.
BarePayload(id, contextId, streaming) ==
  [id |-> id, contextId |-> Undefined, streaming |-> streaming]

\* send's payload: configuration carries contextId only when it is truthy
\* (...(contextId && { contextId })), and the id is ++this.requestId.
Payload(id, contextId, streaming) ==
  [id |-> id, contextId |-> IF Truthy(contextId) THEN contextId ELSE Undefined,
   streaming |-> streaming]

SendPayload(c, opt, streaming) ==
  Payload(requestId[c] + 1, EffectiveContextId(opt, currentContextId[c]), streaming)

\* stream's payload: contextId: this.currentContextId (JSON.stringify leaves
\* an undefined member out), streaming: true.
StreamPayload(c) ==
  [id |-> requestId[c] + 1, contextId |-> currentContextId[c], streaming |-> TRUE]

\* The model's cap on the requests of an instance; the test suite needs none,
\* its script being finite.
Bounded(c) == driver.kind = "test" \/ requestId[c] < MaxRequests

\* A call of instance c is in progress.
InFlight(c) == \E j \in Slots : call[j].pc # "idle" /\ call[j].client = c

\* The payload is built, the counter moves on and the request is POSTed:
\* send up to its fetch (in handleStreaming when streaming), stream up to its.
\* A call that is in progress at the same time as another of its instance is
\* marked overlapped, and so is the other.
Post(k, c, started, payload) ==
  /\ call[k].pc = "idle"
  /\ Bounded(c)
  /\ requestId' = [requestId EXCEPT ![c] = payload.id]
  /\ sent' = [sent EXCEPT ![c] = Append(@, payload.id)]
  /\ call' = [j \in Slots |->
                IF j = k
                THEN [started EXCEPT !.pc = "fetch", !.request = payload,
                                     !.overlapped = InFlight(c)]
                ELSE IF call[j].pc # "idle" /\ call[j].client = c
                     THEN [call[j] EXCEPT !.overlapped = TRUE]
                     ELSE call[j]]
  /\ observed' = [observed EXCEPT ![c] = @ \cup ({payload.contextId} \ {Undefined})]
  /\ known' = known \cup ({payload.contextId} \ {Undefined})
  /\ UNCHANGED <<currentContextId, last, prev, succeeded>>

\* send(text, {contextId: opt, streaming})
CallSend(k, c, opt, streaming) ==
  Post(k, c, Started(c, "send", opt, streaming), SendPayload(c, opt, streaming))

\* A plausible slip of continue: the guard is left out.
AlwaysActive(stored) == FALSE

\* continue: if (!this.currentContextId)
NoActiveConversation(stored) == ~Truthy(stored)

\* continue(text, streaming)
CallContinue(k, c, streaming) ==
  IF NoActiveConversation(currentContextId[c])
  THEN /\ call[k].pc = "idle"
       /\ Record(c, [Started(c, "continue", Undefined, streaming) EXCEPT
                       !.pc = "finished",
                       !.outcome = Throw("state", NoValue, "No active conversation")],
                 currentContextId[c])
       /\ UNCHANGED <<requestId, call, sent, observed, known>>
  ELSE Post(k, c, Started(c, "continue", currentContextId[c], streaming),
            SendPayload(c, currentContextId[c], streaming))

\* stream(text), from the consumer's first next() to the fetch.
CallStream(k, c) ==
  Post(k, c, Started(c, "stream", Undefined, TRUE), StreamPayload(c))

\* A plausible slip of newConversation: the context id is left as it is.
KeepContext(stored) == stored

\* newConversation: this.currentContextId = undefined
ClearedContext(stored) == Undefined

\* A plausible slip of newConversation: the request counter starts again too.
NewConversationReset(c) ==
  /\ Record(c, [Started(c, "new", Undefined, FALSE) EXCEPT !.pc = "finished"],
            ClearedContext(currentContextId[c]))
  /\ requestId' = [requestId EXCEPT ![c] = 0]
  /\ UNCHANGED <<call, sent, observed, known>>

NewConversation(c) ==
  /\ Record(c, [Started(c, "new", Undefined, FALSE) EXCEPT !.pc = "finished"],
            ClearedContext(currentContextId[c]))
  /\ UNCHANGED <<requestId, call, sent, observed, known>>

\* A plausible slip: a 402 is looked at only after the body was read as a reply.
NoPaymentCheck(status) == FALSE

\* response.status === 402
PaymentRequired(status) == status = 402

\* throw new PaymentRequiredError(await response.json()): the outcome of a 402.
PaymentError(parsed) ==
  IF parsed.ok THEN Throw("payment", parsed.value, "Payment required")
  ELSE Throw("syntax", NoValue, "SyntaxError")

PaymentOutcome(body) == PaymentError(JsonParse(body))

\* A plausible slip of send: the result is returned whenever there is one, and
\* the error is looked at only when there is none.
ResultBeforeError(parsed) ==
  IF ~parsed.ok THEN Throw("syntax", NoValue, "SyntaxError")
  ELSE IF parsed.value.result # NoTask THEN Return(parsed.value.result)
  ELSE IF parsed.value.error # Undefined THEN Throw("rpc", NoValue, parsed.value.error)
  ELSE Throw("type", NoValue, "TypeError")

\* What a unary send makes of its parsed body: result.error throws before
\* result.result is looked at, and an absent result throws when its contextId
\* is read.
UnaryResult(parsed) ==
  IF ~parsed.ok THEN Throw("syntax", NoValue, "SyntaxError")
  ELSE IF parsed.value.error # Undefined THEN Throw("rpc", NoValue, parsed.value.error)
  ELSE IF parsed.value.result = NoTask THEN Throw("type", NoValue, "TypeError")
  ELSE Return(parsed.value.result)

UnaryOutcome(body) == UnaryResult(JsonParse(body))

\* How far the call of slot k gets on response r without reading its stream:
\* the outcome it ends with, or NoOutcome when it goes on to reader.read().
ResponseOutcome(streaming, r) ==
  IF PaymentRequired(r.status) THEN PaymentOutcome(r.body)
  ELSE IF ~streaming THEN UnaryOutcome(r.body)
  ELSE IF ~r.hasBody THEN Throw("nobody", NoValue, "No response body")
  ELSE NoOutcome

\* A plausible slip: the Task is returned and its context id never stored.
ContextKept(outcome, stored) == stored

\* this.currentContextId after a unary call ends with `outcome`: the returned
\* Task's context id, whenever that response is processed; a call that throws
\* leaves the stored one.
ContextAfter(outcome, stored) ==
  IF outcome.kind = "task" THEN outcome.task.contextId ELSE stored

Responded(k, c, got, out, ids) ==
  /\ call[k].pc = "fetch"
  /\ IF out.kind = "none"
     THEN /\ call' = [call EXCEPT ![k] = [got EXCEPT !.pc = "reading"]]
          /\ UNCHANGED <<currentContextId, last, prev, succeeded>>
     ELSE /\ call' = [call EXCEPT ![k] = IdleCall]
          /\ Record(c, [got EXCEPT !.pc = "finished", !.outcome = out],
                    ContextAfter(out, currentContextId[c]))
  /\ observed' = [observed EXCEPT ![c] =
                    @ \cup (IF out.kind = "task" THEN {out.task.contextId} ELSE {})]
  /\ known' = known \cup ids
  /\ UNCHANGED <<requestId, sent>>

Received(k, r, ids) ==
  [call[k] EXCEPT !.status = r.status, !.body = r.body, !.hasBody = r.hasBody,
                  !.faithful = FaithfulIds(call[k].request, ids, known)]

FetchResolved(k, r, ids) ==
  Responded(k, call[k].client, Received(k, r, ids),
            ResponseOutcome(call[k].streaming, r), ids)

\* The fetch of slot k resolves with response r = [status, body, hasBody], and
\* the call runs on to its end (a 402, a unary reply, a response with no body)
\* or to its first reader.read().  Between the fetch and `await
\* response.json()` the call touches nothing of the instance, so the two awaits
\* are one step.
FetchResolve(k, r) ==
  FetchResolved(k, r, CtxOfTasks(TasksOfBody(r.body, call[k].streaming)))

\* A plausible slip: a fetch that rejects is tried again.
FetchRetry(k) ==
  /\ call[k].pc = "fetch"
  /\ sent' = [sent EXCEPT ![call[k].client] = Append(@, call[k].request.id)]
  /\ UNCHANGED <<currentContextId, requestId, call, last, prev, observed, known, succeeded>>

\* The fetch of slot k rejects (no connection): the call throws what fetch threw.
FetchReject(k) ==
  /\ call[k].pc = "fetch"
  /\ Finish(k, Throw("network", NoValue, "fetch failed"), currentContextId[call[k].client])
  /\ UNCHANGED <<requestId, sent, observed, known>>

\* reader.read() of slot k rejects (the connection broke): the call throws what
\* read threw, and what it stored so far stays stored.
ReadReject(k) ==
  /\ call[k].pc = "reading"
  /\ Finish(k, Throw("network", NoValue, "read failed"), currentContextId[call[k].client])
  /\ UNCHANGED <<requestId, sent, observed, known>>

\* The generator of slot k has run its lines to `run`: it is suspended at a
\* yield, or back at reader.read().
Streamed(k, c, read, run) ==
  /\ call' = [call EXCEPT ![k] =
                [read EXCEPT !.lines = run.rest, !.lastText = run.lastText,
                             !.decoded = @ \o run.decoded,
                             !.yielded = IF run.yields THEN Append(@, run.yield) ELSE @,
                             !.pc = IF run.yields THEN "yielded" ELSE "reading"]]
  /\ currentContextId' = [currentContextId EXCEPT ![c] = run.ctx]
  /\ observed' = [observed EXCEPT ![c] = @ \cup CtxOfTasks(run.decoded)]

\* handleStreaming of slot k has run all the lines of a chunk.
Handled(k, c, read, lastTask, tasks) ==
  /\ call' = [call EXCEPT ![k] =
                [read EXCEPT !.lastTask = lastTask, !.decoded = @ \o tasks]]
  /\ observed' = [observed EXCEPT ![c] = @ \cup CtxOfTasks(tasks)]
  /\ UNCHANGED currentContextId

ReadLines(k, c, read, lines) ==
  IF call[k].op = "stream"
  THEN Streamed(k, c, read, StreamLines(lines, currentContextId[c], call[k].lastText, <<>>))
  ELSE Handled(k, c, read, HandleLines(lines, call[k].lastTask), TasksOfLines(lines))

ReadPieces(k, n, pending, pieces) ==
  ReadLines(k, call[k].client,
            [call[k] EXCEPT !.pos = @ + n, !.pending = pending, !.buffer = HoldBack(pieces)],
            Front(pieces))

ReadDecoded(k, n, d) == ReadPieces(k, n, d.pending, Split(call[k].buffer \o d.text))

\* reader.read() of slot k resolves with the next n bytes of the body; the
\* chunk is decoded, appended to the buffer and split, the last piece is held
\* back and the lines are run: all of them by handleStreaming, up to the first
\* yield by stream.
ReadChunk(k, n) ==
  /\ call[k].pc = "reading"
  /\ n \in 1..(Len(call[k].body) - call[k].pos)
  /\ ReadDecoded(k, n, Decode(call[k].pending,
                              SubSeq(call[k].body, call[k].pos + 1, call[k].pos + n)))
  /\ UNCHANGED <<requestId, sent, last, prev, known, succeeded>>

\* The consumer of stream asks for the next increment: the generator resumes
\* after its yield and runs the lines left of the chunk.
Resume(k) ==
  /\ call[k].pc = "yielded"
  /\ Streamed(k, call[k].client, call[k],
              StreamLines(call[k].lines, currentContextId[call[k].client],
                          call[k].lastText, <<>>))
  /\ UNCHANGED <<requestId, sent, last, prev, known, succeeded>>

\* A plausible slip of the read loops: when the stream ends, what is left in
\* the buffer is run as a last line.
ReadDoneFlush(k) ==
  /\ call[k].pc = "reading"
  /\ call[k].pos = Len(call[k].body)
  /\ IF call[k].op = "stream"
     THEN Finish(k, [NoOutcome EXCEPT !.kind = "done"],
                 ContextOf(Decoded(TaskOfLine(call[k].buffer)),
                           currentContextId[call[k].client]))
     ELSE IF HandleLine(call[k].lastTask, TaskOfLine(call[k].buffer)) = NoTask
          THEN Finish(k, Throw("notask", NoValue, "No task received"),
                      currentContextId[call[k].client])
          ELSE Finish(k, Return(HandleLine(call[k].lastTask, TaskOfLine(call[k].buffer))),
                      HandleLine(call[k].lastTask, TaskOfLine(call[k].buffer)).contextId)
  /\ UNCHANGED <<requestId, sent, observed, known>>

\* reader.read() of slot k resolves with done: the loop ends.  handleStreaming
\* throws when no Task was decoded, else stores its context id and returns it;
\* stream's generator finishes.
ReadDone(k) ==
  LET c == call[k].client
  IN /\ call[k].pc = "reading"
     /\ call[k].pos = Len(call[k].body)
     /\ IF call[k].op = "stream"
        THEN Finish(k, [NoOutcome EXCEPT !.kind = "done"], currentContextId[c])
        ELSE IF call[k].lastTask = NoTask
             THEN Finish(k, Throw("notask", NoValue, "No task received"), currentContextId[c])
             ELSE Finish(k, Return(call[k].lastTask), call[k].lastTask.contextId)
     /\ UNCHANGED <<requestId, sent, observed, known>>

(***************************************************************************)
(* Spec: one instance whose calls are serialised (spec.md, section 5),     *)
(* against a server that may answer anything.                              *)
(***************************************************************************)
\* Unary bodies: a completed Task, a Task of another conversation, an RPC
\* error, an error beside a result, an object with neither, a cut-off body.
UnaryBodies == {"{R1cuxgxy}", "{R2cgy}", "{Ex}", "{R1cgxEy}", "{}", "{R1cgx"}

\* Payment challenges: one that parses and one that does not.
PaymentBodies == {"{Px}", "{Px"}

\* Streams: a conversation's frames growing to [DONE], one frame of another
\* conversation, two conversations mixed, and a stream with no Task in it.
SessionStreams ==
  {"data: {R1wgx}\ndata: {R1cgxy}\ndata: [DONE]\n",
   "data: {R2cgy}\n\n",
   "data: {R1wgx}\ndata: {R2cgxy}\n",
   ": ping\ndata: [DONE]\n"}

\* The context ids a caller passes to send as options.contextId.
Options == {Undefined, "", "2"}

Response(status, body, hasBody) == [status |-> status, body |-> body, hasBody |-> hasBody]

\* The responses the server may give a request.  The client reads nothing of
\* a status but whether it is 402.
SessionResponses(streaming) ==
  IF streaming
  THEN {Response(200, b, TRUE) : b \in SessionStreams}
         \cup {Response(500, b, TRUE) : b \in {"data: {R1cgx}\n", ": ping\n"}}
         \cup {Response(402, b, TRUE) : b \in PaymentBodies \cup {"data: {R1cgx}\n"}}
         \cup {Response(200, "", FALSE)}
  ELSE {Response(200, b, TRUE) : b \in UnaryBodies}
         \cup {Response(500, b, TRUE) : b \in {"{R1cgx}", "{Ex}"}}
         \cup {Response(402, b, TRUE) : b \in PaymentBodies \cup {"{R1cgx}"}}

\* The bytes one read delivers in Spec, unless it delivers all that is left.
ChunkBytes == 9

SessionChunks(k) ==
  {n \in 1..(Len(call[k].body) - call[k].pos) :
     n = ChunkBytes \/ n = Len(call[k].body) - call[k].pos}

\* No call is in progress.
Quiet == \A k \in Slots : call[k].pc = "idle"

Next ==
  \E k \in {"s1"}, c \in {"A"} :
    \/ \E opt \in Options, streaming \in BOOLEAN : Quiet /\ CallSend(k, c, opt, streaming) /\ UNCHANGED driver
    \/ \E streaming \in BOOLEAN : Quiet /\ CallContinue(k, c, streaming) /\ UNCHANGED driver
    \/ Quiet /\ CallStream(k, c) /\ UNCHANGED driver
    \/ Quiet /\ NewConversation(c) /\ UNCHANGED driver
    \/ \E r \in SessionResponses(call[k].streaming) : FetchResolve(k, r) /\ UNCHANGED driver
    \/ FetchReject(k) /\ UNCHANGED driver
    \/ \E n \in SessionChunks(k) : ReadChunk(k, n) /\ UNCHANGED driver
    \/ ReadReject(k) /\ UNCHANGED driver
    \/ Resume(k) /\ UNCHANGED driver
    \/ ReadDone(k) /\ UNCHANGED driver

Spec == Init /\ [][Next]_vars

(***************************************************************************)
(* SpecStream: one streaming exchange of a fresh instance, send with       *)
(* streaming = true or stream(), whose response is any stream of at most   *)
(* MaxLines lines and an unfinished last line, cut into chunks in any way. *)
(***************************************************************************)
\* The lines of a stream: a frame, the frame extending it by a two-byte
\* character, a frame of another conversation whose text extends neither, a
\* frame with no agent message, the end marker, a cut-off frame and a comment.
StreamLineSet ==
  {"data: {R1wgx}", "data: {R1cgx^~}", "data: {R2cgy}", "data: {R1wux}",
   "data: [DONE]", "data: {R1wg", ": ping"}

\* What a stream may end with after its last newline.
StreamTails == {"", "data: {R1cgxy}"}

MaxLines == 2

\* The streams of at most n newline-terminated lines.
RECURSIVE Terminated(_)
Terminated(n) ==
  IF n = 0 THEN {""}
  ELSE Terminated(n - 1) \cup {b \o l \o "\n" : b \in Terminated(n - 1), l \in StreamLineSet}

StreamBodies == {b \o t : b \in Terminated(MaxLines), t \in StreamTails}

\* Instance c has made no call yet.
Fresh(c) == Quiet /\ requestId[c] = 0 /\ last[c].op = "idle"

NextStream ==
  \E k \in {"s1"}, c \in {"A"} :
    \/ Fresh(c) /\ CallSend(k, c, Undefined, TRUE) /\ UNCHANGED driver
    \/ Fresh(c) /\ CallStream(k, c) /\ UNCHANGED driver
    \/ \E b \in StreamBodies : FetchResolve(k, Response(200, b, TRUE)) /\ UNCHANGED driver
    \/ \E n \in 1..Len(call[k].body) : ReadChunk(k, n) /\ UNCHANGED driver
    \/ Resume(k) /\ UNCHANGED driver
    \/ ReadDone(k) /\ UNCHANGED driver

SpecStream == Init /\ [][NextStream]_vars

(***************************************************************************)
(* The claims.                                                             *)
(***************************************************************************)
\* The calls of instance c to speak of: the one in progress and the one that
\* finished last, each with the operation that came before it.
Turns(c) ==
  {[event |-> call[k], before |-> Summary(last[c])] :
     k \in {j \in Slots : call[j].pc # "idle" /\ call[j].client = c}}
    \cup {[event |-> last[c], before |-> prev[c]]}

\* C1: a continue that follows a send which returned Task T1, with nothing in
\* between, does not fail its precondition and issues its request with
\* configuration.contextId = T1.contextId; when the server answers within the
\* context id it was given, the Task continue returns has T1's context id.
ContextContinuity ==
  \A c \in Clients : \A t \in Turns(c) :
    t.event.op = "continue" /\ t.before.op = "send" /\ t.before.kind = "task"
      => /\ t.event.outcome.kind # "state"
         /\ t.event.request.contextId = t.before.task.contextId
         /\ (t.event.faithful /\ t.event.outcome.kind = "task"
               => t.event.outcome.task.contextId = t.before.task.contextId)

ContinuedAfterSend ==
  \E c \in Clients :
    /\ last[c].op = "continue" /\ prev[c].op = "send" /\ prev[c].kind = "task"
    /\ last[c].faithful /\ last[c].outcome.kind = "task"

\* C2: right after newConversation the stored context id is absent, the next
\* send without a contextId option issues a request that carries no contextId,
\* and when the server hands out an id it never met, the Task that send
\* returns has a context id the instance had not observed before.
ContextIsolation ==
  \A c \in Clients :
    /\ (Quiet /\ last[c].op = "new" => currentContextId[c] = Undefined)
    /\ \A t \in Turns(c) :
         t.event.op = "send" /\ t.event.opt = Undefined /\ t.before.op = "new"
           => /\ t.event.request.contextId = Undefined
              /\ (t.event.faithful /\ t.event.outcome.kind = "task"
                    => t.event.outcome.task.contextId \notin t.event.seenBefore)

IsolatedAfterNew ==
  \E c \in Clients :
    /\ last[c].op = "send" /\ last[c].opt = Undefined /\ prev[c].op = "new"
    /\ last[c].faithful /\ last[c].outcome.kind = "task"
    /\ last[c].seenBefore # {}

\* What every call answered with a 402 has in common: it fails, has read no
\* byte of the body as a stream, decoded no Task, yielded nothing, and the
\* stored context id is what it was before the call.
PaymentStops(c) ==
  /\ last[c].outcome.kind \in {"payment", "syntax"}
  /\ last[c].outcome.task = NoTask
  /\ last[c].pos = 0 /\ last[c].decoded = <<>> /\ last[c].yielded = <<>>
  /\ (Quiet => currentContextId[c] = last[c].ctxBefore)

\* C3 as stated: every call answered with status 402, on any of the three
\* paths, fails with PaymentRequiredError carrying the parsed body, with no SSE
\* line read, no Task, no text yielded and the stored context id unchanged.
PaymentShortCircuit ==
  \A c \in Clients :
    last[c].status = 402
      => /\ last[c].outcome.kind = "payment"
         /\ last[c].outcome.info = JsonParse(last[c].body).value
         /\ PaymentStops(c)

\* C3 as amended: a call answered with status 402 whose body is JSON fails
\* with PaymentRequiredError carrying the parsed body; one whose body is not
\* JSON fails with the parser's error; in both cases no SSE line is read, no
\* Task is returned, no text is yielded and the stored context id is unchanged,
\* and no call is ever reading the stream of a 402.
PaymentShortCircuitJson ==
  /\ \A k \in Slots : call[k].status # 402
  /\ \A c \in Clients :
       last[c].status = 402
         => /\ PaymentStops(c)
            /\ IF JsonParse(last[c].body).ok
               THEN /\ last[c].outcome.kind = "payment"
                    /\ last[c].outcome.message = "Payment required"
                    /\ last[c].outcome.info = JsonParse(last[c].body).value
               ELSE last[c].outcome.kind = "syntax"

PaymentOnStream ==
  \E c \in Clients :
    /\ last[c].status = 402 /\ last[c].op = "stream"
    /\ last[c].outcome.kind = "payment" /\ last[c].outcome.info.amount = "x"
    /\ last[c].ctxBefore # Undefined

RECURSIVE Concat(_)
Concat(pieces) == IF pieces = <<>> THEN "" ELSE Head(pieces) \o Concat(Tail(pieces))

\* The agent text of the last of the Tasks, "" when there is none.
FinalText(tasks) == IF tasks = <<>> THEN "" ELSE AgentOf(tasks[Len(tasks)]).text

\* Text b is text a with something (or nothing) appended.
Extends(a, b) == Len(b) >= Len(a) /\ SubSeq(b, 1, Len(a)) = a

\* Each Task's agent text extends that of the Task before it.
PrefixGrowing(tasks) ==
  \A i \in 1..(Len(tasks) - 1) : Extends(AgentOf(tasks[i]).text, AgentOf(tasks[i + 1]).text)

HasText(tasks) == \E i \in 1..Len(tasks) : AgentOf(tasks[i]).text # ""

\* A stream() call that was iterated to the end of its stream.
StreamedToEnd(event) == event.op = "stream" /\ event.outcome.kind = "done"

\* C4 as stated: the increments of a stream() iterated to its end, put
\* together in order, are the agent text of the last decoded frame, and there
\* is an increment whenever a decoded frame has agent text.
IncrementsMakeFinalText ==
  \A c \in Clients :
    StreamedToEnd(last[c])
      => /\ Concat(last[c].yielded) = FinalText(last[c].decoded)
         /\ (HasText(last[c].decoded) => last[c].yielded # <<>>)

\* C4 as amended: when the agent text of each decoded frame extends that of
\* the frame before it (a frame with no agent message counting as empty text),
\* the increments of a stream() iterated to its end, put together in order,
\* are the agent text of the last decoded frame; and there is an increment
\* whenever a decoded frame has agent text.
IncrementsMakeGrowingText ==
  \A c \in Clients :
    StreamedToEnd(last[c])
      => /\ (PrefixGrowing(last[c].decoded)
               => Concat(last[c].yielded) = FinalText(last[c].decoded))
         /\ (HasText(last[c].decoded) => last[c].yielded # <<>>)

GrewByIncrements ==
  \E c \in Clients :
    /\ StreamedToEnd(last[c])
    /\ Len(last[c].decoded) = 2 /\ PrefixGrowing(last[c].decoded)
    /\ Len(last[c].yielded) = 2

\* What the read loop makes of `bytes` arriving as one chunk: the lines it
\* runs and the Tasks they decode to.
WholeLines(bytes) == Front(Split(Decode("", bytes).text))

WholeTasks(bytes) == TasksOfLines(WholeLines(bytes))

\* The increments stream's loop yields from `run` on.
RECURSIVE YieldsFrom(_)
YieldsFrom(run) ==
  IF run.yields
  THEN <<run.yield>> \o YieldsFrom(StreamLines(run.rest, run.ctx, run.lastText, <<>>))
  ELSE <<>>

WholeYields(bytes) == YieldsFrom(StreamLines(WholeLines(bytes), Undefined, "", <<>>))

WholeOutcome(tasks) ==
  IF tasks = <<>> THEN Throw("notask", NoValue, "No task received")
  ELSE Return(tasks[Len(tasks)])

\* C5: however the body is cut into chunks, a call that has read its first n
\* bytes has decoded the Tasks, and holds back the rest, that the same bytes
\* give as one chunk; so at the end of the stream the Tasks decoded, the Task
\* send returns and the increments stream yielded are those of the whole body
\* read as one chunk.
ChunkingIndependence ==
  /\ \A k \in Slots :
       call[k].pc = "reading"
         => /\ call[k].decoded = WholeTasks(SubSeq(call[k].body, 1, call[k].pos))
            /\ call[k].buffer =
                 HoldBack(Split(Decode("", SubSeq(call[k].body, 1, call[k].pos)).text))
  /\ \A c \in Clients :
       last[c].pc = "finished"
         => /\ last[c].decoded = WholeTasks(last[c].body)
            /\ (last[c].op = "stream" => last[c].yielded = WholeYields(last[c].body))
            /\ (last[c].op = "send" => last[c].outcome = WholeOutcome(WholeTasks(last[c].body)))

CutInsideCharacter ==
  \E k \in Slots :
    /\ call[k].pc = "reading" /\ call[k].pending # "" /\ call[k].buffer # ""
    /\ call[k].decoded # <<>>

\* C6: send with streaming = true reads the stream to its end and returns the
\* last frame that decoded to a Task, whole; when no frame decoded to a Task
\* it fails instead of returning.
StreamingSendReturnsLast ==
  \A c \in Clients :
    last[c].op = "send" /\ last[c].streaming /\ last[c].pc = "finished"
      => /\ last[c].pos = Len(last[c].body)
         /\ IF last[c].decoded = <<>>
            THEN last[c].outcome.kind = "notask" /\ last[c].outcome.task = NoTask
            ELSE last[c].outcome = Return(last[c].decoded[Len(last[c].decoded)])

SupersededWhole ==
  \E c \in Clients :
    /\ last[c].op = "send" /\ last[c].streaming /\ last[c].outcome.kind = "task"
    /\ Len(last[c].decoded) = 2
    /\ last[c].decoded[1].contextId # last[c].decoded[2].contextId

\* The Task a successful exchange ends with.
FinalTask(event) ==
  IF event.outcome.kind = "task" THEN event.outcome.task
  ELSE event.decoded[Len(event.decoded)]

\* C7 as stated: between calls, the stored context id is that of the final
\* Task of the exchange that has just succeeded, and it is absent as long as
\* no exchange has succeeded and right after newConversation.
StoredContextIsFinalTask ==
  \A c \in Clients :
    Quiet => /\ (Successful(last[c]) => currentContextId[c] = FinalTask(last[c]).contextId)
             /\ (~succeeded[c] => currentContextId[c] = Undefined)
             /\ (last[c].op = "new" => currentContextId[c] = Undefined)

\* C8: continue with no stored context id fails with the state error, issues
\* no request and leaves the counter and the stored context id as they were;
\* with a stored context id it issues the request of send with that id as its
\* contextId option.
ContinueNeedsContext ==
  \A c \in Clients :
    /\ (Quiet /\ last[c].op = "continue" /\ ~Truthy(last[c].ctxBefore)
          => /\ last[c].outcome.kind = "state"
             /\ last[c].outcome.message = "No active conversation"
             /\ last[c].request = NoRequest
             /\ requestId[c] = last[c].reqIdBefore
             /\ Len(sent[c]) = last[c].sentBefore
             /\ currentContextId[c] = last[c].ctxBefore)
    /\ \A t \in Turns(c) :
         t.event.op = "continue" /\ Truthy(t.event.ctxBefore)
           => /\ t.event.outcome.kind # "state"
              /\ t.event.opt = t.event.ctxBefore
              /\ t.event.request =
                   Payload(t.event.reqIdBefore + 1, t.event.ctxBefore, t.event.streaming)

ContinueAfterNew ==
  \E c \in Clients :
    /\ Quiet /\ last[c].op = "continue" /\ last[c].outcome.kind = "state"
    /\ prev[c].op = "new" /\ requestId[c] > 0

\* The status of a response that is neither 2xx nor 402.
NonOk(status) == status # 0 /\ status \notin 200..299 /\ status # 402

\* C9: a call answered with a status that is neither 2xx nor 402 fails with a
\* transport error: no Task, nothing decoded or yielded, and the stored
\* context id unchanged, whatever the body.
NonOkIsTransportError ==
  \A c \in Clients :
    NonOk(last[c].status)
      => /\ last[c].outcome.kind \notin {"task", "done"}
         /\ last[c].outcome.task = NoTask
         /\ last[c].yielded = <<>>
         /\ (Quiet => currentContextId[c] = last[c].ctxBefore)

\* A unary send or continue whose response was read as a JSON-RPC object.
UnaryAnswered(event) ==
  /\ event.op \in {"send", "continue"} /\ ~event.streaming /\ event.pc = "finished"
  /\ event.status # 0 /\ ~PaymentRequired(event.status)
  /\ JsonParse(event.body).ok

\* A unary call that met an error member: it fails with the RPC error carrying
\* the error's message, returns no Task and leaves the stored context id.
FailedWithRpcError(c) ==
  /\ last[c].outcome.kind = "rpc"
  /\ last[c].outcome.message = JsonParse(last[c].body).value.error
  /\ last[c].outcome.task = NoTask
  /\ (Quiet => currentContextId[c] = last[c].ctxBefore)

SlotOf(c) == IF c = "A" THEN "s1" ELSE "s2"

\* Instance c has no call in progress.
QuietOf(c) == call[SlotOf(c)].pc = "idle"

\* The responses of SpecTwo: a Task, an RPC error, and a stream with a Task of
\* another conversation.
TwoResponses(streaming) ==
  IF streaming
  THEN {Response(200, "data: {R2cgy}\n", TRUE)}
  ELSE {Response(200, b, TRUE) : b \in {"{R1cgx}", "{Ex}"}}

NextTwo ==
  \E c \in Clients :
    \/ QuietOf(c) /\ CallSend(SlotOf(c), c, Undefined, FALSE) /\ UNCHANGED driver
    \/ QuietOf(c) /\ CallContinue(SlotOf(c), c, FALSE) /\ UNCHANGED driver
    \/ QuietOf(c) /\ CallStream(SlotOf(c), c) /\ UNCHANGED driver
    \/ QuietOf(c) /\ NewConversation(c) /\ UNCHANGED driver
    \/ \E r \in TwoResponses(call[SlotOf(c)].streaming) : FetchResolve(SlotOf(c), r) /\ UNCHANGED driver
    \/ \E n \in SessionChunks(SlotOf(c)) : ReadChunk(SlotOf(c), n) /\ UNCHANGED driver
    \/ Resume(SlotOf(c)) /\ UNCHANGED driver
    \/ ReadDone(SlotOf(c)) /\ UNCHANGED driver

SpecTwo == Init /\ [][NextTwo]_vars

\* The step is one of instance c: an operation of it ends, or a call of it
\* starts or moves on.
StepOf(c) ==
  \/ last'[c] # last[c]
  \/ \E k \in Slots :
       /\ call'[k] # call[k]
       /\ \/ call[k].pc # "idle" /\ call[k].client = c
          \/ call'[k].pc # "idle" /\ call'[k].client = c

\* Nothing instance c keeps changes in the step.
Untouched(c) ==
  /\ currentContextId'[c] = currentContextId[c]
  /\ requestId'[c] = requestId[c]
  /\ sent'[c] = sent[c]
  /\ last'[c] = last[c]
  /\ observed'[c] = observed[c]

\* What an instance that ran alone has: a request counter that counts its own
\* requests, and a stored context id that it met in a request or response of
\* its own.
AsIfAlone(c) ==
  /\ requestId[c] = Len(sent[c])
  /\ \A i \in 1..Len(sent[c]) : sent[c][i] = i
  /\ currentContextId[c] # Undefined => currentContextId[c] \in observed[c]

\* C11: with two instances interleaved at every await point, every step is a
\* step of one instance and leaves what the other keeps (stored context id,
\* request counter) as it is, so each instance is in a state it reaches alone.
SessionIndependence ==
  /\ [](\A c \in Clients : AsIfAlone(c))
  /\ [][\A c \in Clients : StepOf(c) \/ Untouched(c)]_vars
  /\ [][\A c, d \in Clients : StepOf(c) /\ StepOf(d) => c = d]_vars

BothInFlight ==
  /\ call["s1"].pc = "reading" /\ call["s1"].pos > 0 /\ call["s1"].client = "A"
  /\ call["s2"].pc = "fetch" /\ call["s2"].client = "B"
  /\ currentContextId["A"] # Undefined /\ currentContextId["B"] # Undefined
  /\ currentContextId["A"] # currentContextId["B"]

\* A data line whose payload is not JSON.
Malformed(line) ==
  IsDataLine(line) /\ DataOf(line) # "[DONE]" /\ ~JsonParse(DataOf(line)).ok

\* The lines with the malformed ones taken out.
RECURSIVE WellFormed(_)
WellFormed(lines) ==
  IF lines = <<>> THEN <<>>
  ELSE (IF Malformed(Head(lines)) THEN <<>> ELSE <<Head(lines)>>) \o WellFormed(Tail(lines))

\* C12: a malformed data line never aborts a streaming exchange, and the
\* exchange ends as the same stream without its malformed lines does: the same
\* Tasks decoded in order, the same Task returned (or the same failure for
\* want of one), the same increments yielded, the same context id stored.
MalformedLineSkipped ==
  \A c \in Clients :
    last[c].pc = "finished"
      => /\ last[c].outcome.kind \in {"task", "notask", "done"}
         /\ last[c].decoded = TasksOfLines(WellFormed(WholeLines(last[c].body)))
         /\ (last[c].op = "send"
               => last[c].outcome =
                    WholeOutcome(TasksOfLines(WellFormed(WholeLines(last[c].body)))))
         /\ (last[c].op = "stream"
               => last[c].yielded =
                    YieldsFrom(StreamLines(WellFormed(WholeLines(last[c].body)),
                                           Undefined, "", <<>>)))
         /\ (Quiet => currentContextId[c] =
                        ContextOf(TasksOfLines(WellFormed(WholeLines(last[c].body))),
                                  last[c].ctxBefore))

DecodedAfterMalformed ==
  \E c \in Clients :
    /\ last[c].op = "send" /\ last[c].outcome.kind = "task"
    /\ Len(WholeLines(last[c].body)) = 2
    /\ Malformed(WholeLines(last[c].body)[1])
    /\ last[c].decoded # <<>>

\* What C13 has stream yield for the agent texts of the decoded Tasks from
\* `lastText` on: the appended suffix of a text that extends the one before,
\* the whole of a text that does not.
RECURSIVE NewMessageYields(_, _)
NewMessageYield(tasks, lastText, agent) ==
  IF ~agent.found THEN NewMessageYields(Tail(tasks), lastText)
  ELSE (IF ~Extends(lastText, agent.text) THEN <<agent.text>>
        ELSE IF Len(agent.text) > Len(lastText) THEN <<Increment(lastText, agent.text)>>
        ELSE <<>>)
         \o NewMessageYields(Tail(tasks), agent.text)

NewMessageYields(tasks, lastText) ==
  IF tasks = <<>> THEN <<>> ELSE NewMessageYield(tasks, lastText, AgentOf(Head(tasks)))

\* C13: a stream() iterated to its end has yielded, for every decoded frame
\* whose agent text does not extend the text observed before it, that frame's
\* whole text (and for a frame that extends it, the appended suffix).
NonPrefixYieldsWhole ==
  \A c \in Clients :
    StreamedToEnd(last[c]) => last[c].yielded = NewMessageYields(last[c].decoded, "")

\* The end marker is among the lines.
HasDone(lines) == \E i \in 1..Len(lines) : lines[i] = "data: [DONE]"

\* The call has run a 'data: [DONE]' line.
DoneDecoded(event) == HasDone(WholeLines(SubSeq(event.body, 1, event.pos)))

\* C14: a call that has decoded a 'data: [DONE]' line reads the response body
\* no further: it is never again at reader.read().
NoReadAfterDone ==
  \A k \in Slots : call[k].pc = "reading" => ~DoneDecoded(call[k])

(***************************************************************************)
(* SpecOverlap: one instance whose callers do not wait for one call to end *)
(* before they start the next: up to two calls are in progress at once.    *)
(***************************************************************************)
\* discover(): GET /.well-known/agent-card.json, failing when the response is
\* not ok, else returning the card.  It reads and writes nothing of the
\* instance, so its awaits are one step.
Discover(c, ok) ==
  /\ Record(c, [Started(c, "discover", Undefined, FALSE) EXCEPT
                  !.pc = "finished",
                  !.outcome = IF ok THEN [NoOutcome EXCEPT !.kind = "card"]
                              ELSE Throw("http", NoValue, "Failed to fetch agent card")],
            currentContextId[c])
  /\ UNCHANGED <<requestId, call, sent, observed, known>>

\* The responses of SpecOverlap.
OverlapResponses(streaming) ==
  IF streaming
  THEN {Response(200, "data: {R2cgy}\n", TRUE)}
  ELSE {Response(200, b, TRUE) : b \in {"{R1cgx}", "{R2cgy}", "{Ex}"}}

NextOverlap ==
  \E k \in Slots, c \in {"A"} :
    \/ CallSend(k, c, Undefined, FALSE) /\ UNCHANGED driver
    \/ CallContinue(k, c, FALSE) /\ UNCHANGED driver
    \/ CallStream(k, c) /\ UNCHANGED driver
    \/ NewConversation(c) /\ UNCHANGED driver
    \/ \E ok \in BOOLEAN : Discover(c, ok) /\ UNCHANGED driver
    \/ \E r \in OverlapResponses(call[k].streaming) : FetchResolve(k, r) /\ UNCHANGED driver
    \/ FetchReject(k) /\ UNCHANGED driver
    \/ \E n \in SessionChunks(k) : ReadChunk(k, n) /\ UNCHANGED driver
    \/ Resume(k) /\ UNCHANGED driver
    \/ ReadDone(k) /\ UNCHANGED driver

SpecOverlap == Init /\ [][NextOverlap]_vars

\* The ids are in strictly increasing order.
Increasing(ids) == \A i, j \in 1..Len(ids) : i < j => ids[i] < ids[j]

\* C15: the ids of the requests an instance has issued, failed calls
\* included, are strictly increasing in the order of issue, calls in progress
\* together carry different ids, and newConversation and discover leave the
\* counter as it is.
RequestIdsIncrease ==
  /\ [](\A c \in Clients :
          /\ Increasing(sent[c])
          /\ \A i \in 1..Len(sent[c]) : sent[c][i] <= requestId[c]
          /\ \A k, j \in Slots :
               k # j /\ call[k].pc # "idle" /\ call[j].pc # "idle"
                 /\ call[k].client = c /\ call[j].client = c
                 => call[k].request.id # call[j].request.id)
  /\ [][\A c \in Clients :
          last'[c] # last[c] /\ last'[c].op \in {"new", "discover"}
            => requestId'[c] = requestId[c] /\ sent'[c] = sent[c]]_vars

IssuedWhileInFlight ==
  /\ Len(sent["A"]) = 2
  /\ call["s1"].pc = "fetch" /\ call["s2"].pc = "fetch"
  /\ last["A"].op = "new" /\ prev["A"].op = "discover"

\* An operation that is a call of send, continue or stream.
IsCall(event) == event.op \in {"send", "continue", "stream"}

\* The requests the call has POSTed, when the instance has POSTed `ids` in all.
PostsOf(event, ids) == SubSeq(ids, event.sentBefore + 1, Len(ids))

\* C16: a call of send, continue or stream POSTs one request and never a
\* second, however it ends (none when continue fails its precondition), and a
\* call that fails ends with its error.
NoRetries ==
  \A c \in Clients :
    /\ \A k \in Slots :
         call[k].pc # "idle" /\ call[k].client = c
           => PostsOf(call[k], sent[c]) = <<call[k].request.id>>
    /\ (Quiet /\ IsCall(last[c])
          => /\ last[c].outcome.kind # "none"
             /\ PostsOf(last[c], sent[c]) =
                  (IF last[c].outcome.kind = "state" THEN <<>> ELSE <<last[c].request.id>>))

FailedOnce ==
  \E c \in Clients :
    /\ Quiet /\ last[c].op = "send" /\ last[c].outcome.kind = "network"
    /\ last[c].status = 0 /\ last[c].sentBefore = 1 /\ Len(sent[c]) = 2

\* The context id a request carries when `opt` is what it is to carry: an
\* empty one is carried as none.
Carried(opt) == IF opt = "" THEN Undefined ELSE opt

\* C17 as stated: the request of send carries the contextId option whenever
\* one is supplied, whatever the stored context id is, the stored context id
\* when none is supplied, and no contextId only when there is neither.
OptionOverridesStored ==
  \A c \in Clients : \A t \in Turns(c) :
    t.event.op = "send"
      => /\ (t.event.opt # Undefined => t.event.request.contextId = Carried(t.event.opt))
         /\ (t.event.opt = Undefined => t.event.request.contextId = t.event.ctxBefore)
         /\ (t.event.request.contextId = Undefined
               => ~Truthy(t.event.opt) /\ t.event.ctxBefore = Undefined)

\* C17 as amended: the request of send carries the contextId option whenever
\* a non-empty one is supplied, the stored context id when none or the empty
\* string is, and no contextId exactly when there is neither a non-empty
\* option nor a stored context id.
NonEmptyOptionOverridesStored ==
  \A c \in Clients : \A t \in Turns(c) :
    t.event.op = "send"
      => /\ (Truthy(t.event.opt) => t.event.request.contextId = t.event.opt)
         /\ (~Truthy(t.event.opt) => t.event.request.contextId = t.event.ctxBefore)
         /\ (t.event.request.contextId = Undefined
               <=> ~Truthy(t.event.opt) /\ ~Truthy(t.event.ctxBefore))

OptionBesideStored ==
  \E c \in Clients :
    /\ last[c].op = "send" /\ last[c].opt = "2" /\ last[c].ctxBefore = "1"
    /\ last[c].request.contextId = "2"

\* The exchange of send or continue returned a Task.
ReturnedTask(event) ==
  event.op \in {"send", "continue"} /\ event.outcome.kind = "task"

\* C18: once the calls of an instance have all finished, the stored context
\* id is the one of the response that was processed last, whichever call was
\* issued last; and the call whose response was processed last is not the one
\* issued last only when it was in progress together with another call of
\* the instance: calls made one after the other never end so.
LastProcessedWins ==
  \A c \in Clients :
    Quiet /\ ReturnedTask(last[c])
      => /\ currentContextId[c] = last[c].outcome.task.contextId
         /\ (last[c].request.id < requestId[c] => last[c].overlapped)

\* Two calls were in progress together, the one issued first was answered
\* last, and the stored context id is its conversation's, not that of the
\* call issued last.
Raced ==
  /\ Quiet /\ ReturnedTask(last["A"]) /\ last["A"].overlapped
  /\ last["A"].request.id = 1 /\ requestId["A"] = 2
  /\ prev["A"].op \in {"send", "continue"} /\ prev["A"].kind = "task"
  /\ prev["A"].task.contextId # last["A"].outcome.task.contextId
  /\ currentContextId["A"] = last["A"].outcome.task.contextId

(***************************************************************************)
(* SpecChat: main runs chatCommand on instance A.  The user's lines are    *)
(* read one at a time, the next only when the one before was dealt with.   *)
(***************************************************************************)
\* What the instance and its calls keep: all but the driver's own state.
session ==
  <<currentContextId, requestId, call, sent, last, prev, observed, known, succeeded>>

\* input.trim(), of the white space a line has: blanks.
RECURSIVE Trim(_)
Trim(s) ==
  IF Len(s) > 0 /\ CharAt(s, 1) = " " THEN Trim(SubSeq(s, 2, Len(s)))
  ELSE IF Len(s) > 0 /\ CharAt(s, Len(s)) = " " THEN Trim(Front(s))
  ELSE s

\* The lines chatCommand tests for before it takes one for a message.
Commands == {"/exit", "/help", "/new", "/stream", "/context"}

\* A plausible slip of /stream: it turns streaming on, and never off.
ToggleOn(streaming) == TRUE

\* streaming = !streaming
Toggled(streaming) == ~streaming

\* getContextId()
GetContextId(c) == currentContextId[c]

\* What /context prints: client.getContextId() || '(none)'
Shown(contextId) == IF Truthy(contextId) THEN contextId ELSE "(none)"

\* rl.question has called back and is waiting for no line: the callback runs.
Prompting == driver.kind = "chat" /\ driver.pc = "prompt"

\* The driver once the callback has taken `text`.
Asked(text) == [driver EXCEPT !.text = text, !.tick = 1 - @]

\* chatCommand up to its first prompt(): discover(), whose failure (or a card
\* with no skills array to list) leaves chatCommand, and main exits with 1.
ChatStart(c, ok) ==
  /\ driver.kind = "none"
  /\ Discover(c, ok)
  /\ driver' = IF ok
               THEN [NoDriver EXCEPT !.kind = "chat", !.pc = "prompt"]
               ELSE [NoDriver EXCEPT !.kind = "chat", !.pc = "exited",
                                     !.exited = TRUE, !.code = 1]

\* if (!text) return prompt()
ChatEmpty(text) ==
  /\ Prompting /\ text = ""
  /\ driver' = Asked(text)
  /\ UNCHANGED session

\* /exit: rl.close(); nothing is left to run and the process ends.
ChatExit(text) ==
  /\ Prompting /\ text = "/exit"
  /\ driver' = [Asked(text) EXCEPT !.pc = "closed", !.exited = TRUE]
  /\ UNCHANGED session

\* /help: showHelp()
ChatHelp(text) ==
  /\ Prompting /\ text = "/help"
  /\ driver' = Asked(text)
  /\ UNCHANGED session

\* /new: client.newConversation()
ChatNew(c, text) ==
  /\ Prompting /\ text = "/new"
  /\ NewConversation(c)
  /\ driver' = Asked(text)

\* /stream
ChatToggle(text) ==
  /\ Prompting /\ text = "/stream"
  /\ driver' = [Asked(text) EXCEPT !.streaming = Toggled(@)]
  /\ UNCHANGED session

\* /context
ChatContext(c, text) ==
  /\ Prompting /\ text = "/context"
  /\ driver' = [Asked(text) EXCEPT !.shown = Shown(GetContextId(c))]
  /\ UNCHANGED session

\* Any other line is a message: client.stream(text) when streaming is on,
\* client.send(text) when it is off, up to the fetch.
ChatMessage(k, c, text) ==
  /\ Prompting /\ text # "" /\ text \notin Commands
  /\ IF driver.streaming THEN CallStream(k, c) ELSE CallSend(k, c, Undefined, FALSE)
  /\ driver' = [Asked(text) EXCEPT !.pc = "awaiting"]

\* The driver after a step of the call it awaits, the slot being `after`
\* then: when the call has returned or thrown (whatever it threw is caught),
\* prompt() is called again.
Prompted(after) ==
  IF after.pc = "idle" THEN [driver EXCEPT !.pc = "prompt"] ELSE driver

\* The lines typed.
ChatInputs ==
  {"", " ", "/exit", "/help", "/new", " /new ", "/stream", "/context", "/newx", "x"}

\* The responses of SpecChat.
ChatResponses(streaming) ==
  IF streaming
  THEN {Response(200, "data: {R1wgx}\ndata: {R1cgxy}\n", TRUE)}
  ELSE {Response(200, "{R1cgx}", TRUE), Response(200, "{Ex}", TRUE),
        Response(402, "{Px}", TRUE)}

NextChat ==
  \E k \in {"s1"}, c \in {"A"} :
    \/ \E ok \in BOOLEAN : ChatStart(c, ok)
    \/ \E input \in ChatInputs :
         \/ ChatEmpty(Trim(input))
         \/ ChatExit(Trim(input))
         \/ ChatHelp(Trim(input))
         \/ ChatNew(c, Trim(input))
         \/ ChatToggle(Trim(input))
         \/ ChatContext(c, Trim(input))
         \/ ChatMessage(k, c, Trim(input))
    \/ \E r \in ChatResponses(call[k].streaming) :
         FetchResolve(k, r) /\ driver' = Prompted(call'[k])
    \/ FetchReject(k) /\ driver' = Prompted(call'[k])
    \/ \E n \in SessionChunks(k) : ReadChunk(k, n) /\ driver' = Prompted(call'[k])
    \/ Resume(k) /\ driver' = Prompted(call'[k])
    \/ ReadDone(k) /\ driver' = Prompted(call'[k])

SpecChat == Init /\ [][NextChat]_vars

\* The line is a local command, or empty.
Local(text) == text \in Commands \cup {""}

\* The step is the callback taking a line.
LineTaken == driver.kind = "chat" /\ driver'.tick # driver.tick

\* C19: in chatCommand's loop, a local command or an empty line starts no
\* HTTP request (no POST, no GET of the card, no call): /new only clears the
\* context id, /stream only flips the streaming flag, /context, /help and an
\* empty line change nothing the instance or the loop keeps, /exit ends the
\* loop for good; every request is started by a line that is neither, with
\* stream when the flag is on and send when it is off.
LocalCommandsStayLocal ==
  /\ [][LineTaken /\ Local(driver'.text)
          => /\ UNCHANGED <<requestId, call, sent, observed, known, succeeded>>
             /\ IF driver'.text = "/new"
                THEN /\ currentContextId'["A"] = Undefined
                     /\ last'["A"].op = "new"
                ELSE UNCHANGED <<currentContextId, last, prev>>
             /\ driver'.streaming =
                  (IF driver'.text = "/stream" THEN ~driver.streaming ELSE driver.streaming)
             /\ driver'.pc = (IF driver'.text = "/exit" THEN "closed" ELSE driver.pc)
             /\ driver.pc = "prompt"]_vars
  /\ [][LineTaken /\ ~Local(driver'.text)
          => /\ call'["s1"].pc = "fetch"
             /\ call'["s1"].op = (IF driver.streaming THEN "stream" ELSE "send")
             /\ sent'["A"] = Append(sent["A"], call'["s1"].request.id)
             /\ driver'.streaming = driver.streaming]_vars
  /\ [][driver.kind = "chat" /\ sent' # sent
          => LineTaken /\ ~Local(driver'.text)]_vars
  /\ [][driver.pc # "closed"]_vars

\* After a message sent with streaming off and answered with a Task, /stream
\* and then /new were typed: the context id is cleared, the flag is on, and
\* the one request is still the only one.
CommandsAfterMessage ==
  /\ driver.kind = "chat" /\ driver.pc = "prompt" /\ driver.text = "/new"
  /\ driver.streaming
  /\ last["A"].op = "new" /\ prev["A"].op = "send" /\ prev["A"].kind = "task"
  /\ currentContextId["A"] = Undefined
  /\ sent["A"] = <<1>>

(***************************************************************************)
(* SpecTest: main runs testCommand on instance A.  A scenario is the       *)
(* `index`-th of the list, and `pc` is where its function stands; nothing  *)
(* else runs meanwhile, so each call the function makes is a step of its   *)
(* own.                                                                    *)
(***************************************************************************)
\* const tests = [...]: the names of the scenarios, in the order of the list.
Tests ==
  <<"Agent Discovery", "Simple Message", "Multi-turn Conversation",
    "Context Isolation", "Streaming Response">>

\* A plausible slip of testCommand: the process ends with 0 whatever failed.
ExitZero(passed) == 0

\* if (passed < tests.length) process.exit(1); else main returns and the
\* process ends with 0.
ExitCode(passed) == IF passed < Len(Tests) THEN 1 ELSE 0

\* The for loop moves on: to the next scenario, or past the last to the
\* summary and the end of the process.
Looped(d) ==
  IF d.index <= Len(Tests)
  THEN [d EXCEPT !.pc = "begin", !.ran = Append(@, d.index)]
  ELSE [d EXCEPT !.pc = "ended", !.exited = TRUE, !.code = ExitCode(d.passed)]

\* The scenario's function returned (passed++) or threw (the catch logs it).
After(d, ok) ==
  Looped([d EXCEPT !.passed = IF ok THEN @ + 1 ELSE @,
                   !.failed = IF ok THEN @ ELSE @ \cup {d.index},
                   !.index = @ + 1, !.kept = Undefined])

\* The scenario's function goes on to its next call.
Goes(d, pc, kept) == [d EXCEPT !.pc = pc, !.kept = kept]

Testing(index, pc) ==
  driver.kind = "test" /\ driver.index \in index /\ driver.pc = pc

\* What the scenarios read of an agent card: whether it has a name, whether
\* it lists a skill, and capabilities.streaming.
Cards == [named : BOOLEAN, skilled : BOOLEAN, streaming : BOOLEAN]

\* testCommand up to its loop: let passed = 0.
TestStart ==
  /\ driver.kind = "none"
  /\ driver' = Looped([NoDriver EXCEPT !.kind = "test", !.index = 1])
  /\ UNCHANGED session

\* 'Agent Discovery'
TestDiscovery(c, ok, card) ==
  /\ Testing({1}, "begin")
  /\ Discover(c, ok)
  /\ driver' = After(driver, ok /\ card.named /\ card.skilled)

\* client.newConversation(), the first statement of 'Simple Message',
\* 'Multi-turn Conversation' and 'Context Isolation', the second
\* newConversation() of the last of these, and the one before stream().
TestNew(c) ==
  /\ \/ Testing({2, 3, 4}, "begin") \/ Testing({4}, "again") \/ Testing({5}, "new")
  /\ NewConversation(c)
  /\ driver' = Goes(driver, IF driver.index = 5 THEN "stream"
                             ELSE IF driver.pc = "again" THEN "send2" ELSE "send",
                      driver.kept)

\* await client.send(...), up to the fetch.
TestSend(k, c) ==
  /\ Testing({2, 3, 4}, "send") \/ Testing({4}, "send2")
  /\ CallSend(k, c, Undefined, FALSE)
  /\ driver' = Goes(driver, IF driver.pc = "send" THEN "sent" ELSE "sent2", driver.kept)

\* The scenario's function once the call it awaited has ended as `event`,
\* the stored context id being `stored` then.
Verdict(d, event, stored) ==
  IF d.index = 2
  THEN After(d, /\ event.outcome.kind = "task"
                /\ event.outcome.task.status = "completed"
                /\ FindAgent(event.outcome.task) # 0)
  ELSE IF d.index = 3 /\ d.pc = "sent"
  THEN IF event.outcome.kind = "task"
       THEN Goes(d, "continue", event.outcome.task.contextId)
       ELSE After(d, FALSE)
  ELSE IF d.index = 3
  THEN After(d, /\ event.outcome.kind = "task"
                /\ event.outcome.task.contextId = d.kept)
  ELSE IF d.index = 4 /\ d.pc = "sent"
  THEN IF event.outcome.kind = "task"
       THEN Goes(d, "again", stored)
       ELSE After(d, FALSE)
  ELSE IF d.index = 4
  THEN After(d, /\ event.outcome.kind = "task"
                /\ event.outcome.task.contextId # d.kept)
  ELSE After(d, event.outcome.kind = "done" /\ Len(event.yielded) # 0)

\* The driver after a step of the call it awaits.
Checked(after, event, stored) ==
  IF after.pc # "idle" THEN driver ELSE Verdict(driver, event, stored)

\* await client.continue(...), up to the fetch, or to its throw when there
\* is no conversation to continue.
TestContinue(k, c) ==
  /\ Testing({3}, "continue")
  /\ CallContinue(k, c, FALSE)
  /\ driver' = Checked(call'[k], last'[c], currentContextId'[c])

\* 'Streaming Response' up to its test of card.capabilities.streaming: an
\* agent without streaming is no failure.
TestCapability(c, ok, card) ==
  /\ Testing({5}, "begin")
  /\ Discover(c, ok)
  /\ driver' = IF ~ok THEN After(driver, FALSE)
               ELSE IF ~card.streaming THEN After(driver, TRUE)
               ELSE Goes(driver, "new", driver.kept)

\* for await (const chunk of client.stream(...)), up to the fetch.  The
\* loop's break after 100 chunks is beyond the streams of the model.
TestStream(k, c) ==
  /\ Testing({5}, "stream")
  /\ CallStream(k, c)
  /\ driver' = Goes(driver, "streaming", driver.kept)

\* The responses of SpecTest.
TestResponses(streaming) ==
  IF streaming
  THEN {Response(200, "data: {R1wgx}\ndata: {R1cgxy}\n", TRUE),
        Response(200, "data: {R1cux}\n", TRUE)}
  ELSE {Response(200, b, TRUE) : b \in {"{R1cgx}", "{R2cgy}", "{R1wgx}", "{R1cux}", "{Ex}"}}

NextTest ==
  \E k \in {"s1"}, c \in {"A"} :
    \/ TestStart
    \/ \E ok \in BOOLEAN, card \in Cards : TestDiscovery(c, ok, card)
    \/ TestNew(c)
    \/ TestSend(k, c)
    \/ TestContinue(k, c)
    \/ \E ok \in BOOLEAN, card \in Cards : TestCapability(c, ok, card)
    \/ TestStream(k, c)
    \/ \E r \in TestResponses(call[k].streaming) :
         FetchResolve(k, r)
           /\ driver' = Checked(call'[k], last'[c], currentContextId'[c])
    \/ FetchReject(k) /\ driver' = Checked(call'[k], last'[c], currentContextId'[c])
    \/ \E n \in SessionChunks(k) :
         ReadChunk(k, n) /\ driver' = Checked(call'[k], last'[c], currentContextId'[c])
    \/ Resume(k) /\ driver' = Checked(call'[k], last'[c], currentContextId'[c])
    \/ ReadDone(k) /\ driver' = Checked(call'[k], last'[c], currentContextId'[c])

SpecTest == Init /\ [][NextTest]_vars

\* The scenarios 1..n, in the order of the list.
InOrder(n) == [i \in 1..n |-> i]

\* C20: testCommand starts the scenarios in the order of its list, one for
\* each that ended, whether it passed or failed; each that ended was counted
\* once, as passed or as failed; the process ends only after the last
\* scenario, and with a non-zero status exactly when a scenario failed.
EveryScenarioRunsAndCounts ==
  driver.kind = "test"
    => /\ driver.ran = InOrder(Len(driver.ran))
       /\ driver.passed + Cardinality(driver.failed) = driver.index - 1
       /\ driver.failed \subseteq 1..(driver.index - 1)
       /\ ~driver.exited => Len(driver.ran) = driver.index /\ driver.code = 0
       /\ driver.exited
            => /\ driver.ran = InOrder(Len(Tests))
               /\ driver.index = Len(Tests) + 1
               /\ (driver.code # 0 <=> driver.failed # {})
               /\ Quiet

\* The second scenario failed, the three after it ran and passed, and the
\* process ended with status 1.
FailedSecondRanAll ==
  /\ driver.kind = "test" /\ driver.exited
  /\ driver.failed = {2} /\ driver.passed = 4
  /\ driver.ran = <<1, 2, 3, 4, 5>>
  /\ driver.code = 1
  /\ requestId["A"] = 6

\* The data lines among the lines, in order.
RECURSIVE DataLines(_)
DataLines(lines) ==
  IF lines = <<>> THEN <<>>
  ELSE (IF IsDataLine(Head(lines)) THEN <<Head(lines)>> ELSE <<>>) \o DataLines(Tail(lines))

\* What follows the last newline of the body.
Unterminated(body) == HoldBack(Split(Decode("", body).text))

\* C21: a streaming exchange that has read its stream to the end has decoded
\* the newline-terminated data lines of the body and nothing else: what
\* follows the last newline is still in the buffer, undecoded, and lines that
\* do not start with 'data: ' count for nothing; so the Tasks decoded, the
\* Task send returns (or its failure for want of one), the increments stream
\* yielded and the context id stored are those of the terminated data lines.
OnlyTerminatedDataLines ==
  \A c \in Clients :
    last[c].pc = "finished" /\ last[c].pos = Len(last[c].body)
      => /\ last[c].buffer = Unterminated(last[c].body)
         /\ last[c].decoded = TasksOfLines(DataLines(WholeLines(last[c].body)))
         /\ (last[c].op = "send"
               => last[c].outcome =
                    WholeOutcome(TasksOfLines(DataLines(WholeLines(last[c].body)))))
         /\ (last[c].op = "stream"
               => last[c].yielded =
                    YieldsFrom(StreamLines(DataLines(WholeLines(last[c].body)),
                                           Undefined, "", <<>>)))
         /\ (Quiet => currentContextId[c] =
                        ContextOf(TasksOfLines(DataLines(WholeLines(last[c].body))),
                                  last[c].ctxBefore))

\* A stream of a comment, a frame of conversation 2 and an unterminated frame
\* of conversation 1 was read to its end: send returned the Task of
\* conversation 2, whose context id is stored.
UnterminatedTaskDropped ==
  \E c \in Clients :
    /\ last[c].op = "send" /\ last[c].pc = "finished"
    /\ WholeLines(last[c].body) = <<": ping", "data: {R2cgy}">>
    /\ TaskOfLine(Unterminated(last[c].body)) # NoTask
    /\ TaskOfLine(Unterminated(last[c].body)).contextId = "1"
    /\ last[c].outcome.kind = "task" /\ last[c].outcome.task.contextId = "2"
    /\ currentContextId[c] = "2"
====
